---- MODULE Spec2Model ----
(***************************************************************************)
(* Recyclist: a list that keeps a window of DOM nodes and recycles the     *)
(* nodes that scrolled out of the window.                                  *)
(*                                                                         *)
(* Two variants are modelled: the scheduled one (requestAnimationFrame     *)
(* polling, skipped frames, one node pool) and the headers one             *)
(* (synchronous fix(), two node pools).                                    *)
(***************************************************************************)
EXTENDS Integers, Sequences, FiniteSets, TLC

(***************************************************************************)
(* Bounds of the model                                                     *)
(***************************************************************************)
MaxItems == 13          \* largest numItems of a configuration
ScrollStride == 3       \* the scroll positions tried are its multiples
MaxPending == 2         \* cap on queued requestAnimationFrame callbacks
MaxArg == 6             \* largest input of the range computation
MaxScrolls == 3         \* scroll changes before the user stops scrolling
SmallItems == 4         \* numItems of the configurations that are resized

(***************************************************************************)
(* Program constants                                                       *)
(***************************************************************************)
MAX_SKIPPED_FRAMES == 4
DISPLAY_MULTIPLIER == 1

Instances == {1, 2}

(***************************************************************************)
(* State of the scheduled variant.  Fields are per instance, except        *)
(* domItems, which is the one object literal stored on the prototype.      *)
(***************************************************************************)
VARIABLES
  numItems,       \* config.numItems, per instance
  itemHeight,     \* template.clientHeight, per instance
  populate,       \* whether config.populate is a function, per instance
  forget,         \* whether config.forget is a function, per instance
  domItems,       \* index -> node : Recyclist.prototype.domItems
  nodes,          \* node -> what populate last wrote into it and its style.top
  lastScrollPos,  \* per instance
  skippedFrames,  \* per instance
  listeners,      \* per instance: scroll/resize listeners attached
  rafQueue,       \* per instance: queued generate callbacks
  scrollPos,      \* per instance: what getScrollPos() returns
  scrollHeight,   \* per instance: what getScrollHeight() returns
  events,         \* per instance: a scroll/resize event waits for dispatch
  phase,          \* per instance: "absent" (not constructed), "new",
                  \* "ready" (init returned), "failed" (init threw)
  pass,           \* record of the latest generate invocation
  awaiting,       \* per instance: fix() ran while Idle, its tick is due
  unchanged,      \* per instance: consecutive ticks that saw no scroll
  scrolls         \* how many times the user has scrolled, where that is counted

(***************************************************************************)
(* State of the headers variant (one instance)                             *)
(***************************************************************************)
VARIABLES
  numItemsH,      \* numItems of the headers variant
  extentH,        \* scrollChild.style.height, in px
  domItemsH,      \* index -> node : the headers variant's domItems
  domHeaders,     \* index -> node : domHeaders
  nodesH,         \* node -> what populate last wrote into it and its style.top
  lastScrollPosH, \* lastScrollPos
  scrollPosH,     \* what getScrollPos() returns
  eventsH,        \* a scroll/resize event waits for dispatch
  phaseH,         \* "absent", "new" or "ready"
  passH           \* record of the latest generate invocation

(***************************************************************************)
(* The range computation on its own: its arguments and its result          *)
(***************************************************************************)
VARIABLES args, range

svars == <<numItems, itemHeight, populate, forget, domItems, nodes, lastScrollPos,
           skippedFrames, listeners, rafQueue, scrollPos, scrollHeight,
           events, phase, pass, awaiting, unchanged, scrolls>>
hvars == <<numItemsH, extentH, domItemsH, domHeaders, nodesH, lastScrollPosH, scrollPosH, eventsH, phaseH,
           passH>>
rvars == <<args, range>>
vars == <<svars, hvars, rvars>>

config == <<numItems, itemHeight, populate, forget>>

(***************************************************************************)
(* Helpers                                                                 *)
(***************************************************************************)
Max(a, b) == IF a >= b THEN a ELSE b
Min(a, b) == IF a <= b THEN a ELSE b
Abs(a) == IF a < 0 THEN -a ELSE a
Range(f) == {f[x] : x \in DOMAIN f}
Restrict(f, S) == [x \in S |-> f[x]]
EmptyMap == [x \in {} |-> 0]

\* ~~(a / b): the quotient truncated toward zero; a division by zero gives
\* Infinity or NaN, which ~~ turns into 0.  (The 32-bit wrap of ~~ is out of
\* reach: every quotient of the model is far below 2^31.)
TruncDiv(a, b) ==
  IF b = 0 THEN 0
  ELSE LET q == Abs(a) \div Abs(b)
       IN IF (a < 0) # (b < 0) THEN 0 - q ELSE q

StartIndexUnclamped(pos, port, multiplier, height) ==
  TruncDiv(pos - multiplier * port, height)
StartIndex(pos, port, multiplier, height) ==
  Max(0, TruncDiv(pos - multiplier * port, height))

EndIndexNoCeil(pos, port, multiplier, height, count) ==
  Min(count, TruncDiv(pos + port + multiplier * port, height))
EndIndex(pos, port, multiplier, height, count) ==
  Min(count, TruncDiv(pos + port + multiplier * port, height) + 1)

\* Array.prototype.sort() without a comparator orders by the string form
\* of the elements; the keys of domItems are decimal strings.
RECURSIVE Digits(_)
Digits(n) == IF n < 10 THEN <<n>> ELSE Append(Digits(n \div 10), n % 10)

RECURSIVE SeqLess(_, _)
SeqLess(s, t) ==
  IF Len(s) = 0 THEN Len(t) > 0
  ELSE IF Len(t) = 0 THEN FALSE
  ELSE IF Head(s) # Head(t) THEN Head(s) < Head(t)
  ELSE SeqLess(Tail(s), Tail(t))

StringLess(a, b) == SeqLess(Digits(a), Digits(b))

RECURSIVE SortKeys(_)
SortKeys(S) ==
  IF S = {} THEN <<>>
  ELSE LET m == CHOOSE x \in S : \A y \in S \ {x} : StringLess(x, y)
       IN <<m>> \o SortKeys(S \ {m})

\* template.cloneNode(true): a node that no map entry holds yet
CloneNode(items) ==
  CHOOSE t \in 1..(Cardinality(DOMAIN items) + 1) : t \notin Range(items)

\* delete this.domItems[recycleIndex]: the map without that entry
DeleteKeepsEntry(map, index) == map
Delete(map, index) == Restrict(map, DOMAIN map \ {index})

\* item.style.top = i * itemHeight + 'px'
TopOfNext(i, height) == (i + 1) * height
Top(i, height) == i * height

\* populate(item, i), then the assignment of style.top
Populated(attrs, item, i, height) ==
  (item :> [index |-> i, top |-> Top(i, height)]) @@ attrs

RecyclableAll(items, startIndex, endIndex) == DOMAIN items
Recyclable(items, startIndex, endIndex) ==
  {i \in DOMAIN items : i < startIndex \/ i >= endIndex}

\* the loop over [startIndex, endIndex) of generate
RECURSIVE Place(_, _, _, _, _)
Place(i, endIndex, forward, canPopulate, st) ==
  IF i >= endIndex \/ st.threw THEN st
  ELSE IF i \in DOMAIN st.items THEN Place(i + 1, endIndex, forward, canPopulate, st)
  ELSE
    LET reuse == Len(st.recyclable) > 0
        recycleIndex == IF forward THEN Head(st.recyclable)
                        ELSE st.recyclable[Len(st.recyclable)]
        rest == IF ~reuse THEN st.recyclable
                ELSE IF forward THEN Tail(st.recyclable)
                ELSE SubSeq(st.recyclable, 1, Len(st.recyclable) - 1)
        item == IF reuse THEN st.items[recycleIndex] ELSE CloneNode(st.items)
        detached == IF reuse THEN Delete(st.items, recycleIndex) ELSE st.items
        taken == [st EXCEPT !.items = detached, !.recyclable = rest,
                            !.recycled = IF reuse THEN Append(@, recycleIndex) ELSE @,
                            !.cloned = IF reuse THEN @ ELSE @ + 1]
    IN IF ~canPopulate THEN [taken EXCEPT !.threw = TRUE]
       ELSE Place(i + 1, endIndex, forward, canPopulate,
                  [taken EXCEPT !.items = detached @@ (i :> item),
                                !.attrs = Populated(@, item, i, st.height),
                                !.toAppend = Append(@, i)])

NoPass == [kind |-> "none", inst |-> 0, tick |-> FALSE, afterIdle |-> FALSE,
           skip |-> FALSE,
           startIndex |-> 0, endIndex |-> 0, forward |-> TRUE,
           recyclable |-> <<>>, recycled |-> <<>>, forgot |-> 0, cloned |-> 0,
           toAppend |-> <<>>]

\* generate(multiplier) of instance r; tick says whether it runs as a
\* requestAnimationFrame callback (and so consumes one queued callback),
\* attached whether the listeners are attached when it is entered.
generate(r, multiplier, tick, attached) ==
  LET skip == skippedFrames[r] < MAX_SKIPPED_FRAMES
      queued == rafQueue[r] - (IF tick THEN 1 ELSE 0) + (IF skip THEN 1 ELSE 0)
      pos == scrollPos[r]
      port == scrollHeight[r]
      startIndex == StartIndex(pos, port, multiplier, itemHeight[r])
      endIndex == EndIndex(pos, port, multiplier, itemHeight[r], numItems[r])
      forward == pos >= lastScrollPos[r]
      recyclableItems == SortKeys(Recyclable(domItems, startIndex, endIndex))
      res == Place(startIndex, endIndex, forward, populate[r],
                   [items |-> domItems, recyclable |-> recyclableItems,
                    recycled |-> <<>>, cloned |-> 0, toAppend |-> <<>>,
                    attrs |-> nodes, height |-> itemHeight[r],
                    threw |-> FALSE])
      base == [NoPass EXCEPT !.inst = r, !.tick = tick, !.skip = skip,
                             !.afterIdle = tick /\ awaiting[r]]
  IN IF pos = lastScrollPos[r]
     THEN /\ skippedFrames' = [skippedFrames EXCEPT ![r] = MAX_SKIPPED_FRAMES]
          /\ listeners' = [listeners EXCEPT ![r] = TRUE]
          /\ rafQueue' = [rafQueue EXCEPT ![r] = queued]
          /\ pass' = [base EXCEPT !.kind = "settled"]
          /\ unchanged' = [unchanged EXCEPT ![r] = Min(2, @ + 1)]
          /\ UNCHANGED <<domItems, nodes, lastScrollPos>>
     ELSE /\ skippedFrames' = [skippedFrames EXCEPT ![r] = 0]
          /\ domItems' = res.items
          /\ nodes' = Restrict(res.attrs, Range(res.items))
          /\ unchanged' = [unchanged EXCEPT ![r] = 0]
          /\ pass' = [base EXCEPT
                        !.kind = IF res.threw THEN "threw" ELSE "pass",
                        !.startIndex = startIndex, !.endIndex = endIndex,
                        !.forward = forward,
                        !.recyclable = recyclableItems,
                        !.recycled = res.recycled,
                        !.forgot = IF forget[r] THEN Len(recyclableItems) ELSE 0,
                        !.cloned = res.cloned,
                        !.toAppend = res.toAppend]
          /\ IF res.threw
             THEN /\ rafQueue' = [rafQueue EXCEPT ![r] = queued]
                  /\ listeners' = [listeners EXCEPT ![r] = attached]
                  /\ UNCHANGED lastScrollPos
             ELSE /\ rafQueue' = [rafQueue EXCEPT ![r] = queued + 1]
                  /\ lastScrollPos' = [lastScrollPos EXCEPT ![r] = pos]
                  /\ listeners' = [listeners EXCEPT ![r] = attached]

(***************************************************************************)
(* Operations                                                              *)
(***************************************************************************)
\* init(): size the scroll child, add the listeners, generate synchronously
init(r) ==
  /\ phase[r] = "new"
  /\ generate(r, DISPLAY_MULTIPLIER, FALSE, TRUE)
  /\ phase' = [phase EXCEPT ![r] = IF pass'.kind = "threw" THEN "failed" ELSE "ready"]
  /\ UNCHANGED <<config, scrollPos, scrollHeight, events, awaiting, scrolls>>
  /\ UNCHANGED <<hvars, rvars>>

\* a queued requestAnimationFrame callback runs generate
AnimationFrame(r) ==
  /\ rafQueue[r] > 0
  /\ generate(r, DISPLAY_MULTIPLIER, TRUE, listeners[r])
  /\ awaiting' = [awaiting EXCEPT ![r] = FALSE]
  /\ UNCHANGED <<config, scrollPos, scrollHeight, events, phase, scrolls>>
  /\ UNCHANGED <<hvars, rvars>>

\* the same, explored only while at most MaxPending callbacks are queued
Tick(r) ==
  /\ AnimationFrame(r)
  /\ rafQueue'[r] <= MaxPending

\* fix(): queue a generate callback and stop listening
fixWithoutCallback(r) ==
  /\ rafQueue' = rafQueue
  /\ listeners' = [listeners EXCEPT ![r] = FALSE]
fix(r) ==
  /\ rafQueue' = [rafQueue EXCEPT ![r] = @ + 1]
  /\ listeners' = [listeners EXCEPT ![r] = FALSE]

\* handleEvent(): a queued scroll/resize event reaches the instance
Dispatch(r) ==
  /\ events[r]
  /\ listeners[r]
  /\ events' = [events EXCEPT ![r] = FALSE]
  /\ fix(r)
  /\ awaiting' = [awaiting EXCEPT ![r] = rafQueue[r] = 0]
  /\ unchanged' = [unchanged EXCEPT ![r] = 0]
  /\ UNCHANGED <<config, domItems, nodes, lastScrollPos, skippedFrames, scrollPos,
                 scrollHeight, phase, pass, scrolls>>
  /\ UNCHANGED <<hvars, rvars>>

\* the same, explored only while at most MaxPending callbacks are queued
handleEvent(r) ==
  /\ rafQueue[r] + 1 <= MaxPending
  /\ Dispatch(r)

\* an event fired while nothing listens is dropped
DropEvent(r) ==
  /\ events[r]
  /\ ~listeners[r]
  /\ events' = [events EXCEPT ![r] = FALSE]
  /\ UNCHANGED <<config, domItems, nodes, lastScrollPos, skippedFrames, listeners,
                 rafQueue, scrollPos, scrollHeight, phase, pass, awaiting,
                 unchanged, scrolls>>
  /\ UNCHANGED <<hvars, rvars>>

\* the scrollable extent set by init: scrollChild is numItems * itemHeight high
MaxScroll(r, port) == Max(0, itemHeight[r] * numItems[r] - port)

\* the user scrolls the scroll parent
ScrollTo(r, p) ==
  /\ phase[r] \in {"ready", "failed"}
  /\ p # scrollPos[r]
  /\ p <= MaxScroll(r, scrollHeight[r])
  /\ scrollPos' = [scrollPos EXCEPT ![r] = p]
  /\ events' = [events EXCEPT ![r] = TRUE]
  /\ UNCHANGED <<config, domItems, nodes, lastScrollPos, skippedFrames, listeners,
                 rafQueue, scrollHeight, phase, pass, awaiting, unchanged>>
  /\ UNCHANGED <<hvars, rvars>>

Scroll(r, p) ==
  /\ ScrollTo(r, p)
  /\ UNCHANGED scrolls

\* the same, for a user who scrolls MaxScrolls times and then stops
ScrollCounted(r, p) ==
  /\ scrolls < MaxScrolls
  /\ scrolls' = scrolls + 1
  /\ ScrollTo(r, p)

\* the scroll port is resized
Resize(r, h) ==
  /\ phase[r] \in {"ready", "failed"}
  /\ h # scrollHeight[r]
  /\ scrollPos[r] <= MaxScroll(r, h)
  /\ scrollHeight' = [scrollHeight EXCEPT ![r] = h]
  /\ events' = [events EXCEPT ![r] = TRUE]
  /\ UNCHANGED <<config, domItems, nodes, lastScrollPos, skippedFrames, listeners,
                 rafQueue, scrollPos, phase, pass, awaiting, unchanged, scrolls>>
  /\ UNCHANGED <<hvars, rvars>>

(***************************************************************************)
(* The headers variant                                                     *)
(***************************************************************************)
VISIBLE_MULTIPLIER == 1     \* this.visibleMultiplier || 1
ASYNC_MULTIPLIER == 4       \* this.asyncMultiplier || 4
HEADER_PERIOD == 6          \* isHeader: index % 6 === 0

ItemHeightH == 3            \* template.clientHeight of the headers list
ScrollHeightH == 1          \* what getScrollHeight() returns there

isHeader(index) == index % HEADER_PERIOD = 0

\* headerTemplate.cloneNode(true) / template.cloneNode(true)
CloneNodeH(template, items, headers) ==
  LET used == {x.n : x \in {y \in Range(items) \cup Range(headers) : y.tpl = template}}
  IN [tpl |-> template,
      n |-> CHOOSE k \in 1..(Cardinality(used) + 1) : k \notin used]

\* which of the two recyclable lists a needed index takes its node from
PoolOfAnyKind(header, st) ==
  IF Len(st.recyclableItems) > 0 THEN "items"
  ELSE IF Len(st.recyclableHeaders) > 0 THEN "headers"
  ELSE "none"
PoolOfItemsOnly(header, st) ==
  IF ~header /\ Len(st.recyclableItems) > 0 THEN "items" ELSE "none"
PoolOf(header, st) ==
  IF ~header /\ Len(st.recyclableItems) > 0 THEN "items"
  ELSE IF header /\ Len(st.recyclableHeaders) > 0 THEN "headers"
  ELSE "none"

TakeFrom(list, forward) == IF forward THEN Head(list) ELSE list[Len(list)]
Without(list, forward) ==
  IF forward THEN Tail(list) ELSE SubSeq(list, 1, Len(list) - 1)

\* the loop over [startIndex, endIndex) of the headers variant's generate
RECURSIVE PlaceH(_, _, _, _)
PlaceH(i, endIndex, forward, st) ==
  IF i >= endIndex THEN st
  ELSE IF i \in DOMAIN st.items \/ i \in DOMAIN st.headers
       THEN PlaceH(i + 1, endIndex, forward, st)
  ELSE
    LET header == isHeader(i)
        pool == PoolOf(header, st)
        recycleIndex ==
          IF pool = "items" THEN TakeFrom(st.recyclableItems, forward)
          ELSE IF pool = "headers" THEN TakeFrom(st.recyclableHeaders, forward)
          ELSE -1
        item ==
          IF pool = "items" THEN st.items[recycleIndex]
          ELSE IF pool = "headers" THEN st.headers[recycleIndex]
          ELSE CloneNodeH(IF header THEN "header" ELSE "item", st.items, st.headers)
        items1 == IF pool = "items" THEN Delete(st.items, recycleIndex) ELSE st.items
        headers1 == IF pool = "headers" THEN Delete(st.headers, recycleIndex)
                    ELSE st.headers
    IN PlaceH(i + 1, endIndex, forward,
              [items |-> IF header THEN items1 ELSE items1 @@ (i :> item),
               headers |-> IF header THEN headers1 @@ (i :> item) ELSE headers1,
               recyclableItems |-> IF pool = "items"
                                   THEN Without(st.recyclableItems, forward)
                                   ELSE st.recyclableItems,
               recyclableHeaders |-> IF pool = "headers"
                                     THEN Without(st.recyclableHeaders, forward)
                                     ELSE st.recyclableHeaders,
               attrs |-> Populated(st.attrs, item, i, ItemHeightH),
               placed |-> Append(st.placed,
                                 [to |-> i, from |-> recycleIndex, node |-> item])])

NoPassH == [kind |-> "none", pos |-> 0, startIndex |-> 0, endIndex |-> 0,
            forward |-> TRUE, repeat |-> FALSE, forgot |-> 0, cloned |-> 0,
            evictable |-> [items |-> <<>>, headers |-> <<>>], placed |-> <<>>,
            added |-> -1]

\* generate(multiplier) of the headers variant, as a function of the maps,
\* the viewport and the record of the pass before it.  The configuration
\* has a forget hook, which is called for the evictable entries of domItems.
generateH(items, headers, attrs, count, pos, last, multiplier, before) ==
  LET startIndex == StartIndex(pos, ScrollHeightH, multiplier, ItemHeightH)
      endIndex == EndIndex(pos, ScrollHeightH, multiplier, ItemHeightH, count)
      recyclableItems == SortKeys(Recyclable(items, startIndex, endIndex))
      recyclableHeaders == SortKeys(Recyclable(headers, startIndex, endIndex))
      res == PlaceH(startIndex, endIndex, pos >= last,
                    [items |-> items, headers |-> headers,
                     recyclableItems |-> recyclableItems,
                     recyclableHeaders |-> recyclableHeaders,
                     attrs |-> attrs, placed |-> <<>>])
  IN [items |-> res.items, headers |-> res.headers,
      attrs |-> Restrict(res.attrs, Range(res.items) \cup Range(res.headers)),
      pass |-> [kind |-> "pass", pos |-> pos,
                startIndex |-> startIndex, endIndex |-> endIndex,
                forward |-> pos >= last,
                repeat |-> /\ before.kind = "pass"
                           /\ before.pos = pos
                           /\ before.startIndex = startIndex
                           /\ before.endIndex = endIndex,
                forgot |-> Len(recyclableItems),
                evictable |-> [items |-> recyclableItems,
                               headers |-> recyclableHeaders],
                cloned |-> Cardinality({k \in DOMAIN res.placed :
                                          res.placed[k].from = -1}),
                placed |-> res.placed,
                added |-> -1]]

\* fix(): generate(asyncMultiplier), then lastScrollPos = getScrollPos()
\* (added is the argument of the addItems call that runs it, -1 otherwise)
fixH(items, headers, attrs, count, before, added) ==
  LET g == generateH(items, headers, attrs, count, scrollPosH, lastScrollPosH,
                     ASYNC_MULTIPLIER, before)
  IN /\ domItemsH' = g.items
     /\ domHeaders' = g.headers
     /\ nodesH' = g.attrs
     /\ passH' = [g.pass EXCEPT !.added = added]
     /\ lastScrollPosH' = scrollPosH

\* init(): size the scroll child, add the listeners,
\* generate(visibleMultiplier), fix()
initH ==
  /\ phaseH = "new"
  /\ extentH' = ItemHeightH * numItemsH
  /\ LET g == generateH(domItemsH, domHeaders, nodesH, numItemsH, scrollPosH,
                        lastScrollPosH, VISIBLE_MULTIPLIER, passH)
     IN fixH(g.items, g.headers, g.attrs, numItemsH, g.pass, -1)
  /\ phaseH' = "ready"
  /\ UNCHANGED <<numItemsH, scrollPosH, eventsH>>
  /\ UNCHANGED <<svars, rvars>>

\* handleEvent(): a queued scroll event reaches the instance, which runs fix()
handleEventH ==
  /\ phaseH = "ready"
  /\ eventsH
  /\ eventsH' = FALSE
  /\ fixH(domItemsH, domHeaders, nodesH, numItemsH, passH, -1)
  /\ UNCHANGED <<numItemsH, extentH, scrollPosH, phaseH>>
  /\ UNCHANGED <<svars, rvars>>

\* the user scrolls the window
ScrollH(p) ==
  /\ phaseH = "ready"
  /\ p # scrollPosH
  /\ p <= Max(0, extentH - ScrollHeightH)
  /\ scrollPosH' = p
  /\ eventsH' = TRUE
  /\ UNCHANGED <<numItemsH, extentH, domItemsH, domHeaders, nodesH,
                 lastScrollPosH, phaseH, passH>>
  /\ UNCHANGED <<svars, rvars>>

\* addItems(n): n more items, the scroll child resized to hold them, and a
\* pass for the indices that came into the window
addItemsH(n) ==
  /\ phaseH = "ready"
  /\ n >= 0
  /\ numItemsH + n <= MaxItems
  /\ numItemsH' = numItemsH + n
  /\ extentH' = ItemHeightH * (numItemsH + n)
  /\ fixH(domItemsH, domHeaders, nodesH, numItemsH + n, passH, n)
  /\ UNCHANGED <<scrollPosH, eventsH, phaseH>>
  /\ UNCHANGED <<svars, rvars>>

(***************************************************************************)
(* The range computation applied to arbitrary arguments                    *)
(***************************************************************************)
Arguments ==
  [pos : 0..MaxArg, port : 0..2, multiplier : {1, 2, 4}, height : 1..3,
   count : 0..MaxArg]

\* the window scenario of the documentation: 50px items, a 500px port
RangeExamples ==
  {[pos |-> 0, port |-> 500, multiplier |-> 1, height |-> 50, count |-> 1000]}

NoRange == [computed |-> FALSE, startIndex |-> 0, endIndex |-> 0]

ComputeRange ==
  /\ ~range.computed
  /\ range' = [computed |-> TRUE,
               startIndex |-> StartIndex(args.pos, args.port, args.multiplier,
                                         args.height),
               endIndex |-> EndIndex(args.pos, args.port, args.multiplier,
                                     args.height, args.count)]
  /\ UNCHANGED <<args, svars, hvars>>

(***************************************************************************)
(* Specifications                                                          *)
(***************************************************************************)
ScrollStops == {p \in 0..MaxItems : p % ScrollStride = 0}
ScrollStopsH == {p \in 0..(ItemHeightH * MaxItems) : p % (ItemHeightH * ScrollStride) = 0}

\* new Recyclist(config): the prototype's defaults, the config copied.
\* first is "new" where an instance is constructed and "absent" where the
\* page does not load this variant.
Recyclist(counts, heights, hooks, ports, first) ==
  /\ \E n \in counts, h \in heights, p \in hooks :
       /\ numItems = [r \in Instances |-> n]
       /\ itemHeight = [r \in Instances |-> h]
       /\ populate = [r \in Instances |-> p]
  /\ forget = [r \in Instances |-> TRUE]
  /\ domItems = EmptyMap
  /\ nodes = EmptyMap
  /\ lastScrollPos = [r \in Instances |-> -1]
  /\ skippedFrames = [r \in Instances |-> MAX_SKIPPED_FRAMES]
  /\ listeners = [r \in Instances |-> FALSE]
  /\ rafQueue = [r \in Instances |-> 0]
  /\ scrollPos = [r \in Instances |-> 0]
  /\ \E h \in ports : scrollHeight = [r \in Instances |-> h]
  /\ events = [r \in Instances |-> FALSE]
  /\ phase = [r \in Instances |-> first]
  /\ pass = NoPass
  /\ awaiting = [r \in Instances |-> FALSE]
  /\ unchanged = [r \in Instances |-> 0]
  /\ scrolls = 0

\* the headers variant's new Recyclist(config)
RecyclistH(counts, first) ==
  /\ numItemsH \in counts
  /\ extentH = 0
  /\ domItemsH = EmptyMap
  /\ domHeaders = EmptyMap
  /\ nodesH = EmptyMap
  /\ lastScrollPosH = 0
  /\ scrollPosH = 0
  /\ eventsH = FALSE
  /\ phaseH = first
  /\ passH = NoPassH

NoArguments ==
  /\ args = [pos |-> 0, port |-> 0, multiplier |-> 1, height |-> 1, count |-> 0]
  /\ range = NoRange

Step(r) ==
  \/ init(r)
  \/ Tick(r)
  \/ handleEvent(r)
  \/ DropEvent(r)
  \/ \E p \in ScrollStops : Scroll(r, p)

\* one list of MaxItems items in a scroll port of constant height
Init ==
  /\ Recyclist({MaxItems}, {1}, {TRUE}, {1}, "new")
  /\ RecyclistH({MaxItems}, "absent")
  /\ NoArguments
Next == Step(1)
Spec == Init /\ [][Next]_vars

\* one short list whose scroll port is resized
PortHeights == {1, 2}
InitResize ==
  /\ Recyclist({SmallItems}, {1}, {TRUE}, PortHeights, "new")
  /\ RecyclistH({MaxItems}, "absent")
  /\ NoArguments
NextResize == Step(1) \/ \E h \in PortHeights : Resize(1, h)
SpecResize == InitResize /\ [][NextResize]_vars

\* two short lists on one page
NextTwo == Step(1) \/ Step(2)
SpecTwo == InitResize /\ [][NextTwo]_vars

\* one short list constructed from any configuration, valid or not
InitConfig ==
  /\ Recyclist({-1, 0, SmallItems}, {-1, 0, 1}, BOOLEAN, {1}, "new")
  /\ RecyclistH({MaxItems}, "absent")
  /\ NoArguments
SpecConfig == InitConfig /\ [][Next]_vars

\* one list with headers
InitHeaders ==
  /\ Recyclist({MaxItems}, {1}, {TRUE}, {1}, "absent")
  /\ RecyclistH({MaxItems}, "new")
  /\ NoArguments
NextHeaders ==
  \/ initH
  \/ handleEventH
  \/ \E p \in ScrollStopsH : ScrollH(p)
SpecHeaders == InitHeaders /\ [][NextHeaders]_vars

\* one list with headers that starts shorter and grows
GrowFrom == {MaxItems - 3, MaxItems - 1}
InitGrow ==
  /\ Recyclist({MaxItems}, {1}, {TRUE}, {1}, "absent")
  /\ RecyclistH(GrowFrom, "new")
  /\ NoArguments
NextGrow == NextHeaders \/ \E n \in 0..MaxItems : addItemsH(n)
SpecGrow == InitGrow /\ [][NextGrow]_vars

\* one list whose user stops scrolling after MaxScrolls changes, while the
\* browser keeps running animation frame callbacks and dispatching events
NextLive ==
  \/ init(1)
  \/ AnimationFrame(1)
  \/ Dispatch(1)
  \/ DropEvent(1)
  \/ \E p \in ScrollStops : ScrollCounted(1, p)
\* WF_vars(AnimationFrame(1)) with its ENABLED written out: a callback can
\* run exactly when one is queued, and running it always changes the state
FramesKeepComing ==
  []<>(rafQueue[1] = 0) \/ []<><<AnimationFrame(1)>>_vars
Scheduling ==
  /\ WF_vars(init(1))
  /\ FramesKeepComing
  /\ WF_vars(Dispatch(1))
  /\ WF_vars(DropEvent(1))
SpecLive == Init /\ [][NextLive]_vars /\ Scheduling

\* one list, of either variant: the page loads one of the two scripts
InitEither == Init \/ InitHeaders
NextEither == Next \/ NextHeaders
SpecEither == InitEither /\ [][NextEither]_vars

\* the range computation on every argument tuple
InitRange ==
  /\ Recyclist({MaxItems}, {1}, {TRUE}, {1}, "absent")
  /\ RecyclistH({MaxItems}, "absent")
  /\ args \in Arguments \cup RangeExamples
  /\ range = NoRange
SpecRange == InitRange /\ [][ComputeRange]_vars

(***************************************************************************)
(* Properties                                                              *)
(***************************************************************************)
Injective(f) == \A i, j \in DOMAIN f : i # j => f[i] # f[j]
Elements(list) == {list[k] : k \in DOMAIN list}

RECURSIVE SortNumeric(_)
SortNumeric(S) ==
  IF S = {} THEN <<>>
  ELSE LET m == CHOOSE x \in S : \A y \in S : x <= y
       IN <<m>> \o SortNumeric(S \ {m})

\* C1: after a reconciliation pass the keys of the active map are exactly
\* the indices of [startIndex, endIndex) computed for that pass.
C1_KeysAreTheRange ==
  pass.kind = "pass" =>
    DOMAIN domItems = {i \in 0..MaxItems : pass.startIndex <= i /\ i < pass.endIndex}

\* C2: the indices recycled by a pass are the numerically smallest evictable
\* ones in ascending order when scrolling forward, the numerically largest
\* ones in descending order when scrolling backward.
C2_RecyclesInNumericOrder ==
  pass.kind = "pass" =>
    LET asc == SortNumeric(Elements(pass.recyclable))
        n == Len(asc)
        k == Len(pass.recycled)
    IN pass.recycled = IF pass.forward THEN SubSeq(asc, 1, k)
                       ELSE [j \in 1..k |-> asc[n - j + 1]]

\* C4: the first tick after a scroll or resize signal that arrived while the
\* scheduler was Idle performs a reconciliation pass.
C4_FirstTickAfterSignalReconciles ==
  pass.afterIdle => pass.kind = "pass"

\* C5: once two consecutive ticks saw the scroll position unchanged, the
\* scheduler is Idle: listeners attached and no generate callback queued.
C5_SettledMeansIdle ==
  unchanged[1] = 2 => listeners[1] /\ rafQueue[1] = 0

\* C3: the computed range satisfies 0 <= startIndex <= endIndex <= numItems.
C3_RangeIsOrdered ==
  range.computed =>
    /\ 0 <= range.startIndex
    /\ range.startIndex <= range.endIndex
    /\ range.endIndex <= args.count

\* C6: a reconciliation pass or init of one instance leaves the active map
\* of the other instance unchanged.
DomItemsOf(r) == domItems    \* this.domItems resolves to the prototype's object
C6_InstancesShareNothing ==
  [][\A r \in Instances : \A o \in Instances \ {r} :
       (pass' # pass /\ pass'.inst = r) => DomItemsOf(o)' = DomItemsOf(o)]_vars

\* C7: a header index is only given a node cloned from the header template
\* or recycled from a header index, a non-header index only a node cloned
\* from the item template or recycled from a non-header index.
TemplateOf(index) == IF isHeader(index) THEN "header" ELSE "item"
C7_KindIsolation ==
  /\ \A k \in DOMAIN passH.placed :
       LET pl == passH.placed[k]
       IN /\ pl.from = -1 => pl.node.tpl = TemplateOf(pl.to)
          /\ pl.from # -1 => isHeader(pl.from) = isHeader(pl.to)
  /\ \A i \in DOMAIN domHeaders : isHeader(i) /\ domHeaders[i].tpl = "header"
  /\ \A i \in DOMAIN domItemsH : ~isHeader(i) /\ domItemsH[i].tpl = "item"

\* a backward pass recycled a header node and an item node
C7_Witness ==
  /\ passH.kind = "pass" /\ ~passH.forward
  /\ \E k \in DOMAIN passH.placed :
       passH.placed[k].from # -1 /\ isHeader(passH.placed[k].to)
  /\ \E k \in DOMAIN passH.placed :
       passH.placed[k].from # -1 /\ ~isHeader(passH.placed[k].to)

\* C8: the active map holds at most one slot per index and no node is bound
\* to two indices at once.
C8_OneNodePerIndex ==
  /\ Injective(domItems)
  /\ Injective(domItemsH)
  /\ Injective(domHeaders)
  /\ DOMAIN domItemsH \cap DOMAIN domHeaders = {}
  /\ Range(domItemsH) \cap Range(domHeaders) = {}

\* a pass recycled two nodes and left a third where it was
C8_Witness ==
  /\ pass.kind = "pass"
  /\ Len(pass.recycled) >= 2
  /\ Cardinality(DOMAIN domItems) >= 3

\* C9: a generate with the scroll position and range of the pass before it
\* calls forget, cloneNode and populate zero times.
C9_RepeatedPassDoesNothing ==
  passH.repeat => passH.forgot = 0 /\ passH.cloned = 0 /\ Len(passH.placed) = 0

\* C10: an invalid configuration ends init in an error, and no
\* reconciliation pass is performed with it.
ValidConfig(r) == populate[r] /\ itemHeight[r] > 0 /\ numItems[r] >= 0
C10_InvalidConfigFails ==
  (phase[1] # "new" /\ ~ValidConfig(1)) =>
    phase[1] = "failed" /\ pass.kind # "pass"

\* C12: while a generate callback is queued the scroll and resize listeners
\* are detached.
C12_PollingMeansDetached ==
  rafQueue[1] > 0 => ~listeners[1]

\* C13: at any moment at most one generate callback is queued for an
\* instance.
C13_AtMostOneCallback ==
  rafQueue[1] <= 1

\* C14: a tick that finds skippedFrames < MAX_SKIPPED_FRAMES only counts the
\* frame and reschedules itself; it computes no window and places nothing.
C14_SkippedFrameDoesNoWork ==
  (pass.tick /\ pass.skip) => pass.kind # "pass"

\* C17: the computed range equals the reference range, which floors:
\* start = max(0, floor((pos - m*port) / height)),
\* end = min(count, floor((pos + port + m*port) / height) + 1);
\* the documented scenario gives [0, 21).
FloorDiv(a, b) == a \div b
C15_ForgetsEveryEvictable ==
  passH.kind = "pass" =>
    passH.forgot = Len(passH.evictable.items) + Len(passH.evictable.headers)

\* C16: a node is cloned for a needed index only when the recyclable list of
\* its kind is empty at that moment; while the list is non-empty its nodes
\* are reused.
PlacedOfKind(header) ==
  {k \in DOMAIN passH.placed : isHeader(passH.placed[k].to) = header}
ReusedOfKind(header) ==
  {k \in PlacedOfKind(header) : passH.placed[k].from # -1}
C16_ClonesOnlyWhenPoolEmpty ==
  /\ pass.kind = "pass" =>
       /\ Len(pass.recycled) = Min(Len(pass.toAppend), Len(pass.recyclable))
       /\ pass.cloned = Len(pass.toAppend) - Len(pass.recycled)
  /\ passH.kind = "pass" =>
       /\ Cardinality(ReusedOfKind(FALSE))
            = Min(Cardinality(PlacedOfKind(FALSE)), Len(passH.evictable.items))
       /\ Cardinality(ReusedOfKind(TRUE))
            = Min(Cardinality(PlacedOfKind(TRUE)), Len(passH.evictable.headers))
       /\ \A header \in BOOLEAN : \A k, l \in PlacedOfKind(header) :
            (k < l /\ passH.placed[k].from = -1) => passH.placed[l].from = -1

\* a pass used up the recyclable nodes of a kind and then cloned for it
C16_Witness ==
  /\ passH.kind = "pass"
  /\ \E header \in BOOLEAN : \E k, l \in PlacedOfKind(header) :
       k < l /\ passH.placed[k].from # -1 /\ passH.placed[l].from = -1
  /\ \E k \in ReusedOfKind(TRUE) : TRUE

\* C18: every entry index -> node of the active maps holds a node whose latest
\* populate call was for that index and whose style.top is index * itemHeight.
C18_EntryShowsItsIndex ==
  /\ \A i \in DOMAIN domItems :
       /\ domItems[i] \in DOMAIN nodes
       /\ nodes[domItems[i]] = [index |-> i, top |-> i * itemHeight[1]]
  /\ \A i \in DOMAIN domItemsH :
       /\ domItemsH[i] \in DOMAIN nodesH
       /\ nodesH[domItemsH[i]] = [index |-> i, top |-> i * ItemHeightH]
  /\ \A i \in DOMAIN domHeaders :
       /\ domHeaders[i] \in DOMAIN nodesH
       /\ nodesH[domHeaders[i]] = [index |-> i, top |-> i * ItemHeightH]

\* a recycled node sits at a new index while an evicted entry is left over
C18_Witness ==
  \/ /\ pass.kind = "pass" /\ pass.recycled # <<>>
     /\ \E i \in DOMAIN domItems : i < pass.startIndex \/ i >= pass.endIndex
  \/ /\ passH.kind = "pass" /\ ReusedOfKind(TRUE) # {} /\ ReusedOfKind(FALSE) # {}
     /\ \E i \in DOMAIN domItemsH : i < passH.startIndex \/ i >= passH.endIndex

\* C19: a pass leaves every slot whose index is inside the new range as it
\* was: same key, same node, same content and position, not handed to forget
\* or populate, not detached; only indices outside the range are recycled.
KeptBy(map, p) == {i \in DOMAIN map : p.startIndex <= i /\ i < p.endIndex}
OutsideOf(p, i) == i < p.startIndex \/ i >= p.endIndex
C19_PassKeepsSlots ==
  /\ ((init(1) \/ Tick(1)) /\ pass'.kind = "pass") =>
       /\ \A i \in KeptBy(domItems, pass') :
            /\ i \in DOMAIN domItems' /\ domItems'[i] = domItems[i]
            /\ nodes'[domItems[i]] = nodes[domItems[i]]
            /\ i \notin Elements(pass'.recyclable)
            /\ i \notin Elements(pass'.recycled)
            /\ \A j \in Elements(pass'.toAppend) : domItems'[j] # domItems[i]
       /\ \A i \in Elements(pass'.recycled) : OutsideOf(pass', i)
  /\ (initH \/ handleEventH) =>
       /\ \A i \in KeptBy(domItemsH, passH') :
            /\ i \in DOMAIN domItemsH' /\ domItemsH'[i] = domItemsH[i]
            /\ nodesH'[domItemsH[i]] = nodesH[domItemsH[i]]
            /\ i \notin Elements(passH'.evictable.items)
       /\ \A i \in KeptBy(domHeaders, passH') :
            /\ i \in DOMAIN domHeaders' /\ domHeaders'[i] = domHeaders[i]
            /\ nodesH'[domHeaders[i]] = nodesH[domHeaders[i]]
            /\ i \notin Elements(passH'.evictable.headers)
       /\ \A k \in DOMAIN passH'.placed :
            /\ passH'.placed[k].from # -1 => OutsideOf(passH', passH'.placed[k].from)
            /\ \A i \in KeptBy(domItemsH, passH') :
                 passH'.placed[k].node # domItemsH[i]
            /\ \A i \in KeptBy(domHeaders, passH') :
                 passH'.placed[k].node # domHeaders[i]
C19_KeptSlotsUntouched == [][C19_PassKeepsSlots]_vars

\* a pass recycled one slot and kept another that was already in the range
C19_Witness ==
  /\ pass.kind = "pass"
  /\ pass.recycled # <<>>
  /\ \E i \in KeptBy(domItems, pass) : i \notin Elements(pass.toAppend)

\* C11: addItems(n), n >= 0, adds n to the item count, sets the scrollable
\* extent to the new count times the item height and runs one pass without a
\* scroll event, after which every index of the window under the new count
\* has a slot and every slot that was in the window before is untouched.
WindowH(count) ==
  {i \in 0..(count - 1) :
     /\ i >= FloorDiv(scrollPosH - ASYNC_MULTIPLIER * ScrollHeightH, ItemHeightH)
     /\ i <= FloorDiv(scrollPosH + ScrollHeightH + ASYNC_MULTIPLIER * ScrollHeightH,
                      ItemHeightH)}
C11_AddItemsStep ==
  \A n \in 0..MaxItems : addItemsH(n) =>
    /\ numItemsH' = numItemsH + n
    /\ extentH' = numItemsH' * ItemHeightH
    /\ passH'.kind = "pass" /\ passH'.added = n
    /\ \A i \in WindowH(numItemsH') :
         i \in DOMAIN domItemsH' \cup DOMAIN domHeaders'
    /\ \A i \in WindowH(numItemsH') \cap DOMAIN domItemsH :
         /\ i \in DOMAIN domItemsH' /\ domItemsH'[i] = domItemsH[i]
         /\ nodesH'[domItemsH[i]] = nodesH[domItemsH[i]]
    /\ \A i \in WindowH(numItemsH') \cap DOMAIN domHeaders :
         /\ i \in DOMAIN domHeaders' /\ domHeaders'[i] = domHeaders[i]
         /\ nodesH'[domHeaders[i]] = nodesH[domHeaders[i]]
C11_AddItemsGrowsAndFills == [][C11_AddItemsStep]_vars

\* addItems brought a new index into the window, next to a slot it kept
C11_Witness ==
  /\ passH.added > 0
  /\ ~eventsH
  /\ \E k \in DOMAIN passH.placed : passH.placed[k].to >= numItemsH - passH.added
  /\ \E i \in WindowH(numItemsH) : \A k \in DOMAIN passH.placed : passH.placed[k].to # i

\* C20: with a constant scroll port, once the user stops scrolling and the
\* animation frames keep coming, the instance ends up Idle (no callback
\* queued, listeners attached) with every index of the window of the final
\* scroll position in domItems; and it never sits with its listeners
\* detached and no callback queued, where a scroll would go unnoticed.
Idle == phase[1] = "ready" /\ rafQueue[1] = 0 /\ listeners[1] /\ ~events[1]
WindowShown ==
  \A i \in 0..(numItems[1] - 1) :
    (/\ i >= FloorDiv(scrollPos[1] - DISPLAY_MULTIPLIER * scrollHeight[1], itemHeight[1])
     /\ i <= FloorDiv(scrollPos[1] + scrollHeight[1]
                        + DISPLAY_MULTIPLIER * scrollHeight[1], itemHeight[1]))
      => i \in DOMAIN domItems
Deaf == phase[1] = "ready" /\ ~listeners[1] /\ rafQueue[1] = 0
C20_SettlesOnFinalWindow ==
  /\ []~Deaf
  /\ <>[](Idle /\ WindowShown)

\* Idle again, away from the top, after the last scroll
C20_Witness ==
  /\ Idle /\ WindowShown
  /\ scrolls = MaxScrolls
  /\ scrollPos[1] > 0
  /\ pass.kind = "settled"

====
